---------------------------- MODULE Spec2Model ----------------------------
(***************************************************************************)
(* A model of src/src/kademlia.rs: the NodeId arithmetic (midpoint,        *)
(* plus_one, distance, the derived ordering), KBucket (add, split,         *)
(* has_in_range, depth) and RoutingTable (add, get_bucket_for,             *)
(* split_bucket).                                                          *)
(*                                                                         *)
(* A NodeId is `data: [u32; 5]`.  Here it is a function 1..NumWords ->     *)
(* 0..WordMax: word i of the model is data[i-1] of the source, and a       *)
(* bucket index i of the model is index i-1 of the source's Vec.  The word *)
(* width and the word count are scaled down (TLC's integers are 32 bits    *)
(* wide); all arithmetic is done per word, modulo 2^WordBits, as the       *)
(* source does it modulo 2^32.                                             *)
(***************************************************************************)
EXTENDS Integers, Sequences, FiniteSets, TLC

VARIABLES rt, call

vars == <<rt, call>>

\* Bits per word of a NodeId (u32 in the source: 32).
WordBits == 2
\* Words per NodeId ([u32; 5] in the source: 5).
NumWords == 2
\* k_size given to the buckets of the initial table.
KSize == 2
\* split_bucket as an operation of its own is taken while the table has
\* fewer buckets than this.
MaxBuckets == 5

RECURSIVE Pow2(_)
Pow2(n) == IF n = 0 THEN 1 ELSE 2 * Pow2(n - 1)

\* 0xffffffff
WordMax == Pow2(WordBits) - 1
\* 0x80000000
HighBit == Pow2(WordBits - 1)
IdBits == NumWords * WordBits
\* Nested calls of RoutingTable::add before the stack is exhausted (the
\* source recurses without a limit of its own).
StackLimit == IdBits + 2

Words == 0 .. WordMax
NodeIds == [1 .. NumWords -> Words]

Zero == [i \in 1 .. NumWords |-> 0]
MaxId == [i \in 1 .. NumWords |-> WordMax]

---------------------------------------------------------------------------
(* The ordering of NodeId: #[derive(PartialOrd)] on a struct whose one     *)
(* field is an array compares the arrays lexicographically from data[0].   *)

Less(a, b) ==
    \E i \in 1 .. NumWords :
        /\ \A j \in 1 .. (i - 1) : a[j] = b[j]
        /\ a[i] < b[i]

Leq(a, b) == a = b \/ Less(a, b)

---------------------------------------------------------------------------
(* Bit operations on one word.                                             *)

Bit(x, k) == (x \div Pow2(k)) % 2

\* x | 0x80000000
OrHighBit(x) == IF Bit(x, WordBits - 1) = 1 THEN x ELSE x + HighBit

RECURSIVE XorWord(_, _, _)
\* x ^ y over the low n bits
XorWord(x, y, n) ==
    IF n = 0 THEN 0
    ELSE ((x + y) % 2) + 2 * XorWord(x \div 2, y \div 2, n - 1)

RECURSIVE CountOnes(_)
\* u32::count_ones
CountOnes(x) == IF x = 0 THEN 0 ELSE (x % 2) + CountOnes(x \div 2)

---------------------------------------------------------------------------
(* NodeId::midpoint                                                        *)

RECURSIVE HalveLoop(_, _)
\* for i in 1..5 { if d[i] & 1 == 1 { d[i-1] |= 0x80000000 }; d[i] >>= 1 }
\* (i is the model's index of the source's data[i]).
HalveLoop(d, i) ==
    IF i > NumWords THEN d
    ELSE LET lower == IF d[i] % 2 = 1 THEN OrHighBit(d[i - 1]) ELSE d[i - 1]
         IN HalveLoop([d EXCEPT ![i - 1] = lower, ![i] = d[i] \div 2], i + 1)

\* self_div_2, other_div_2
Halve(a) == HalveLoop([a EXCEPT ![1] = a[1] \div 2], 2)

RECURSIVE AddLoop(_, _, _, _, _)
\* for i in 0..5 { val = x[i] + y[i] + carry; carry = val > 0xffffffff;
\*                 out[i] = val as u32 }
AddLoop(x, y, carry, out, i) ==
    IF i > NumWords THEN out
    ELSE LET val == x[i] + y[i] + carry
         IN AddLoop(x, y, IF val > WordMax THEN 1 ELSE 0,
                    [out EXCEPT ![i] = val % (WordMax + 1)], i + 1)

\* A slip a port of midpoint could make: the carry seeded with 0.
MidpointNoSeed(a, b) == AddLoop(Halve(a), Halve(b), 0, Zero, 1)

midpoint(a, b) ==
    AddLoop(Halve(a), Halve(b), (a[1] % 2) * (b[1] % 2), Zero, 1)

---------------------------------------------------------------------------
(* NodeId::plus_one                                                        *)

RECURSIVE PlusOneLoop(_, _)
\* for i in 0..5 { if d[i] == 0xffffffff { d[i] = 0 } else { d[i] += 1; break } }
PlusOneLoop(d, i) ==
    IF i > NumWords THEN d
    ELSE IF d[i] = WordMax THEN PlusOneLoop([d EXCEPT ![i] = 0], i + 1)
         ELSE [d EXCEPT ![i] = d[i] + 1]

plus_one(a) == PlusOneLoop(a, 1)

---------------------------------------------------------------------------
(* NodeId::distance                                                        *)

RECURSIVE SumOnes(_, _, _)
SumOnes(a, b, i) ==
    IF i > NumWords THEN 0
    ELSE CountOnes(XorWord(a[i], b[i], WordBits)) + SumOnes(a, b, i + 1)

\* A slip: the last word left out of the sum.
DistanceShort(a, b) ==
    IF NumWords = 1 THEN 0
    ELSE SumOnes([i \in 1 .. NumWords |-> IF i = NumWords THEN 0 ELSE a[i]],
                 [i \in 1 .. NumWords |-> IF i = NumWords THEN 0 ELSE b[i]], 1)

distance(a, b) == SumOnes(a, b, 1)

---------------------------------------------------------------------------
(* Node, KBucket                                                           *)

IpAddrs == {"127.0.0.1", "10.0.0.1"}
Ports == {1234}

\* The ids the calls and the initial contacts are drawn from: the ends of
\* the id space, the first split point and its successor, and the first
\* id whose successor carries into the second word.
LowOnes == [i \in 1 .. NumWords |-> IF i = 1 THEN WordMax ELSE 0]
ProbeIds ==
    {Zero, MaxId, midpoint(Zero, MaxId), plus_one(midpoint(Zero, MaxId)),
     LowOnes, plus_one(LowOnes)}

Nodes == [id : ProbeIds, ip_address : IpAddrs, port : Ports]

\* KBucket::has_in_range: node.id >= self.range.0 && node.id <= self.range.1
has_in_range(bucket, id) == Leq(bucket.range[1], id) /\ Leq(id, bucket.range[2])

\* KBucket::depth
depth(bucket) == 0

\* What a finished KBucket::add would answer: false for a new id when the
\* bucket already holds k_size contacts.
KBucketAddWhenRoom(bucket, node) ==
    \/ \E n \in bucket.nodes : n.id = node.id
    \/ Cardinality(bucket.nodes) < bucket.k_size

\* KBucket::add: takes &mut self, changes nothing and answers true.
KBucketAdd(bucket, node) == TRUE

\* KBucket::split
split(bucket) ==
    LET mid == midpoint(bucket.range[1], bucket.range[2])
        bucket1 == [k_size |-> bucket.k_size,
                    range |-> <<bucket.range[1], mid>>,
                    nodes |-> {n \in bucket.nodes : Leq(n.id, mid)}]
        bucket2 == [k_size |-> bucket.k_size,
                    range |-> <<plus_one(mid), bucket.range[2]>>,
                    nodes |-> {n \in bucket.nodes : ~Leq(n.id, mid)}]
    IN <<bucket1, bucket2>>

---------------------------------------------------------------------------
(* RoutingTable                                                            *)

RECURSIVE GetBucketLoop(_, _, _)
GetBucketLoop(buckets, id, i) ==
    IF i > Len(buckets) THEN 1
    ELSE IF Less(id, buckets[i].range[2]) THEN i
         ELSE GetBucketLoop(buckets, id, i + 1)

\* RoutingTable::get_bucket_for: the first bucket with range.1 > node.id,
\* and the first bucket of all when there is none.
get_bucket_for(buckets, id) == GetBucketLoop(buckets, id, 1)

\* RoutingTable::split_bucket
split_bucket(buckets, index) ==
    LET pair == split(buckets[index])
    IN SubSeq(buckets, 1, index - 1) \o <<pair[1], pair[2]>>
           \o SubSeq(buckets, index + 1, Len(buckets))

RECURSIVE RoutingTableAdd(_, _, _)
\* RoutingTable::add, with the nesting depth of the call.  The result holds
\* the buckets it leaves, the index and the answer of the outermost
\* KBucket::add, the buckets it split (in order), the bucket the innermost
\* call found, and whether the nesting ran past StackLimit.
RoutingTableAdd(buckets, node, level) ==
    LET bucket_index == get_bucket_for(buckets, node.id)
        bucket == buckets[bucket_index]
        should_split == has_in_range(bucket, node.id) \/ depth(bucket) % 5 # 0
        done == [buckets |-> buckets, index |-> bucket_index,
                 inserted |-> TRUE, splits |-> <<>>, last |-> bucket,
                 aborted |-> FALSE]
    IN IF KBucketAdd(bucket, node) THEN done
       ELSE IF ~should_split THEN [done EXCEPT !.inserted = FALSE]
       ELSE IF level >= StackLimit
            THEN [done EXCEPT !.inserted = FALSE, !.aborted = TRUE]
       ELSE LET r == RoutingTableAdd(split_bucket(buckets, bucket_index),
                                     node, level + 1)
            IN [r EXCEPT !.index = bucket_index, !.inserted = FALSE,
                         !.splits = <<bucket>> \o @]

---------------------------------------------------------------------------
(* The state: the table, and the last call made with what it returned.     *)

\* The source has no constructor: a table is a struct literal.  It starts
\* as one bucket over the whole id space, holding at most k_size contacts.
LocalNodes == {n \in Nodes : n.id \in {Zero, MaxId} /\ n.ip_address = "127.0.0.1"}
SeedNodes == {n \in Nodes : n.ip_address = "10.0.0.1"}
InitTables ==
    {[node |-> n,
      buckets |-> <<[k_size |-> KSize, range |-> <<Zero, MaxId>>, nodes |-> s]>>] :
        n \in LocalNodes,
        s \in {t \in SUBSET SeedNodes : Cardinality(t) <= KSize}}

Init ==
    /\ rt \in InitTables
    /\ call = [op |-> "new"]

Aborted == call.op = "add" /\ call.aborted

\* self.add(node)
Add ==
    /\ ~Aborted
    /\ \E node \in Nodes :
         LET r == RoutingTableAdd(rt.buckets, node, 0)
         IN /\ rt' = [rt EXCEPT !.buckets = r.buckets]
            /\ call' = [op |-> "add", node |-> node, pre |-> rt.buckets,
                        index |-> r.index, inserted |-> r.inserted,
                        splits |-> r.splits, last |-> r.last,
                        aborted |-> r.aborted,
                        repeat |-> (call.op = "add" /\ call.node.id = node.id)]

\* self.split_bucket(index)
SplitBucket ==
    /\ ~Aborted
    /\ Len(rt.buckets) < MaxBuckets
    /\ \E index \in 1 .. Len(rt.buckets) :
         /\ rt' = [rt EXCEPT !.buckets = split_bucket(rt.buckets, index)]
         /\ call' = [op |-> "split_bucket", index |-> index, pre |-> rt.buckets]

Next == Add \/ SplitBucket

Spec == Init /\ [][Next]_vars

\* Only RoutingTable::add is called.
NextAdd == Add

SpecAdd == Init /\ [][NextAdd]_vars

---------------------------------------------------------------------------
(* The NodeId operations, each applied to a pair of ids drawn at the start. *)

InitId ==
    /\ rt \in {t \in InitTables : t.node.id = Zero /\ t.buckets[1].nodes = {}}
    /\ \E a \in NodeIds, b \in NodeIds : call = [op |-> "args", a |-> a, b |-> b]

MidpointCall ==
    /\ call.op = "args"
    /\ call' = [op |-> "midpoint", a |-> call.a, b |-> call.b,
                result |-> midpoint(call.a, call.b)]
    /\ UNCHANGED rt

PlusOneCall ==
    /\ call.op = "args"
    /\ call' = [op |-> "plus_one", a |-> call.a, result |-> plus_one(call.a)]
    /\ UNCHANGED rt

DistanceCall ==
    /\ call.op = "args"
    /\ call' = [op |-> "distance", a |-> call.a, b |-> call.b,
                result |-> distance(call.a, call.b)]
    /\ UNCHANGED rt

NextId == MidpointCall \/ PlusOneCall \/ DistanceCall

SpecId == InitId /\ [][NextId]_vars

---------------------------------------------------------------------------
(* What the properties below are stated with.                              *)

RECURSIVE ValFrom(_, _)
ValFrom(a, i) ==
    IF i > NumWords THEN 0 ELSE a[i] + (WordMax + 1) * ValFrom(a, i + 1)

\* A NodeId read as one unsigned integer, word 1 (data[0]) least significant.
Val(a) == ValFrom(a, 1)

\* The bit positions in which two ids differ.
DifferingBits(a, b) == {k \in 0 .. (IdBits - 1) : Bit(Val(a), k) # Bit(Val(b), k)}

RECURSIVE XorValFrom(_, _, _)
XorValFrom(a, b, k) ==
    IF k = IdBits THEN 0
    ELSE (IF Bit(Val(a), k) # Bit(Val(b), k) THEN Pow2(k) ELSE 0)
             + XorValFrom(a, b, k + 1)

\* a XOR b as one unsigned integer.
XorVal(a, b) == XorValFrom(a, b, 0)

\* The ids a range holds under the ordering of NodeId.
InRangeIds(range) == {id \in NodeIds : Leq(range[1], id) /\ Leq(id, range[2])}

Tiles(buckets) ==
    /\ buckets[1].range[1] = Zero
    /\ buckets[Len(buckets)].range[2] = MaxId
    /\ \A i \in 1 .. (Len(buckets) - 1) :
           plus_one(buckets[i].range[2]) = buckets[i + 1].range[1]

Sorted(buckets) ==
    \A i \in 1 .. (Len(buckets) - 1) :
        Less(buckets[i].range[2], buckets[i + 1].range[1])

IsFull(bucket) == Cardinality(bucket.nodes) >= bucket.k_size

Holds(bucket, id) == \E n \in bucket.nodes : n.id = id

\* The bucket the last add looked in, and whether it met it full with a new id.
Covering == call.pre[call.index]
AddMetFull == call.op = "add" /\ IsFull(Covering) /\ ~Holds(Covering, call.node.id)

---------------------------------------------------------------------------
(* NodeId arithmetic (SpecId)                                              *)

\* C4: midpoint(a, b) is floor((a + b) / 2), the ids read as unsigned
\* integers with data[0] least significant.
C4_MidpointIsFloorAverage ==
    call.op = "midpoint" =>
        Val(call.result) = (Val(call.a) + Val(call.b)) \div 2

\* midpoint(0, 2^WordBits) = 2^(WordBits - 1): the halving carries a bit
\* from the second word down into the first.
C4_Witness ==
    /\ call.op = "midpoint"
    /\ call.a = Zero
    /\ call.b = [i \in 1 .. NumWords |-> IF i = 2 THEN 1 ELSE 0]
    /\ call.result = [i \in 1 .. NumWords |-> IF i = 1 THEN HighBit ELSE 0]

\* C5: plus_one(a) is greater than a under the ordering of NodeId, unless a
\* is the greatest id, and then plus_one(a) is zero.
C5_PlusOneIsGreater ==
    call.op = "plus_one" =>
        IF call.a = MaxId THEN call.result = Zero
        ELSE Less(call.a, call.result)

---------------------------------------------------------------------------
(* RoutingTable::add alone (SpecAdd)                                       *)

\* C1: after any sequence of add calls on a table that started as one
\* bucket over the whole id space, the buckets are sorted by range and tile
\* the id space (the first starts at zero, the last ends at the greatest id,
\* each starts at the successor of the end of the one before), and no add
\* leaves fewer buckets than it found.
C1_AddKeepsTiling ==
    /\ Sorted(rt.buckets)
    /\ Tiles(rt.buckets)
    /\ call.op = "add" => Len(rt.buckets) >= Len(call.pre)

\* The same contact added twice in a row to a bucket that is full.
C1_Witness ==
    /\ AddMetFull
    /\ call.repeat
    /\ Tiles(rt.buckets)
    /\ Len(rt.buckets) = Len(call.pre)

---------------------------------------------------------------------------
(* RoutingTable (Spec)                                                     *)

\* C2: in a table that tiles the id space, get_bucket_for answers, for
\* every id, the index of the one bucket whose range holds the id.
C2_GetBucketForFindsTheBucket ==
    Tiles(rt.buckets) =>
        \A id \in NodeIds :
            LET i == get_bucket_for(rt.buckets, id)
            IN /\ has_in_range(rt.buckets[i], id)
               /\ \A j \in 1 .. Len(rt.buckets) :
                      has_in_range(rt.buckets[j], id) => j = i

\* C3: split of a bucket with low < high whose contacts lie in its range
\* gives [low, mid] and [plus_one(mid), high], mid = midpoint(low, high);
\* under the ordering of NodeId the two ranges share no id and together
\* hold the ids of the parent's range, and every contact of the parent is
\* in exactly one child, the one whose range holds its id.
C3_SplitPartitions ==
    call.op = "split_bucket" =>
        LET parent == call.pre[call.index]
            low == rt.buckets[call.index]
            high == rt.buckets[call.index + 1]
            mid == midpoint(parent.range[1], parent.range[2])
        IN (/\ Less(parent.range[1], parent.range[2])
            /\ \A n \in parent.nodes : has_in_range(parent, n.id))
           => /\ low.range = <<parent.range[1], mid>>
              /\ high.range = <<plus_one(mid), parent.range[2]>>
              /\ InRangeIds(low.range) \cap InRangeIds(high.range) = {}
              /\ InRangeIds(low.range) \cup InRangeIds(high.range)
                     = InRangeIds(parent.range)
              /\ low.nodes \cap high.nodes = {}
              /\ low.nodes \cup high.nodes = parent.nodes
              /\ \A n \in low.nodes : has_in_range(low, n.id)
              /\ \A n \in high.nodes : has_in_range(high, n.id)

\* The entries stored under the id of the contact last added.
StoredForCall ==
    {s \in (1 .. Len(rt.buckets)) \X Nodes :
        s[2] \in rt.buckets[s[1]].nodes /\ s[2].id = call.node.id}

\* C7: after add(c) twice in a row the table holds exactly one entry with
\* the id of c, in a bucket whose range holds the id, with the address and
\* port of the later call.
C7_AddTwiceStoresOnce ==
    (call.op = "add" /\ call.repeat) =>
        /\ Cardinality(StoredForCall) = 1
        /\ \A s \in StoredForCall :
               /\ s[2] = call.node
               /\ has_in_range(rt.buckets[s[1]], call.node.id)

\* C8: after every add each bucket holds at most k_size contacts; an add of
\* a new id that meets a full bucket and does not split it finds the bucket
\* reported full and leaves the contacts of the bucket as they were.
C8_FullBucketIsReported ==
    /\ \A i \in 1 .. Len(rt.buckets) :
           Cardinality(rt.buckets[i].nodes) <= rt.buckets[i].k_size
    /\ (AddMetFull /\ call.splits = <<>>) =>
           /\ call.inserted = FALSE
           /\ rt.buckets[call.index].nodes = Covering.nodes

\* Whether the policy lets a bucket be split: its range holds the id of the
\* table's own node, or the depth rule applies.
MaySplit(bucket) == has_in_range(bucket, rt.node.id) \/ depth(bucket) % 5 # 0

\* C9: add splits only full buckets that the policy lets it split; an add
\* that meets a full bucket the policy does not let it split splits
\* nothing and leaves the buckets as they were, also when the range of the
\* bucket holds the id of the contact.
C9_SplitOnlyNearOwnId ==
    call.op = "add" =>
        /\ \A k \in 1 .. Len(call.splits) :
               IsFull(call.splits[k]) /\ MaySplit(call.splits[k])
        /\ (AddMetFull /\ ~MaySplit(Covering)) =>
               (call.splits = <<>> /\ rt.buckets = call.pre)

\* A full bucket that holds the id of the contact and not the table's own.
C9_Witness ==
    /\ AddMetFull
    /\ ~MaySplit(Covering)
    /\ has_in_range(Covering, call.node.id)
    /\ rt.buckets = call.pre

\* The buckets add looked in, in order: those it split, then the last.
Chain == call.splits \o <<call.last>>

\* C10: an add on a table that tiles the id space returns; it splits at
\* most IdBits times, never a bucket whose bounds are equal, and after
\* every split the bucket it looks in next holds the id of the contact and
\* has a range strictly inside the range of the bucket it split.
C10_AddTerminates ==
    (call.op = "add" /\ Tiles(call.pre)) =>
        /\ ~call.aborted
        /\ Len(call.splits) <= IdBits
        /\ \A k \in 1 .. Len(call.splits) :
               /\ call.splits[k].range[1] # call.splits[k].range[2]
               /\ has_in_range(Chain[k + 1], call.node.id)
               /\ InRangeIds(Chain[k + 1].range) \subseteq InRangeIds(Chain[k].range)
               /\ InRangeIds(Chain[k + 1].range) # InRangeIds(Chain[k].range)

\* An add that met a full bucket in a table of several buckets, and returned.
C10_Witness ==
    /\ AddMetFull
    /\ Tiles(call.pre)
    /\ Len(call.pre) >= 3
    /\ ~call.aborted

===========================================================================
